---------------------------- MODULE Spec2Model ----------------------------
(***************************************************************************)
(* Model of service.py: the launcher-service client of the EOS testing     *)
(* framework.  One thread of control runs test(): Service.__init__,        *)
(* Service.connect, Cluster.__init__ and Cluster.bootstrap, each RPC going *)
(* through Cluster.rpc / Interaction.  The environment is the local        *)
(* process table (launcher-service processes that may exit at any time     *)
(* while connect() runs) and the launcher service answering HTTP POSTs.    *)
(*                                                                         *)
(* Python's None is the string "None"; the start and kill flags take the   *)
(* values "True", "False" and "None".  Operating-system failures of        *)
(* os.chdir, subprocess.Popen and subprocess.run are not modelled.         *)
(***************************************************************************)
EXTENDS Integers, Sequences, FiniteSets, TLC

\* ------------------------------------------------------------------ bounds
MaxProcs == 2          \* launcher-service processes running before connect()
MaxCalls == 1          \* RPC calls made by the caller outside bootstrap()
MaxRetry == 2          \* largest retry budget the caller passes explicitly
MaxNodes == 3          \* largest total_nodes drawn
MaxCount == 3          \* largest producer / unstarted count drawn

\* ------------------------------------------------- constants of service.py
PROGRAM == "eosio-launcher-service"
DEFAULT_ADDRESS == "127.0.0.1"
DEFAULT_PORT == 1234
DEFAULT_FILE == "./programs/eosio-launcher-service/eosio-launcher-service"
DEFAULT_START == "False"
DEFAULT_KILL == "False"
DEFAULT_CLUSTER_ID == 0
DEFAULT_TOPOLOGY == "mesh"
DEFAULT_TOTAL_NODES == 4
DEFAULT_TOTAL_PRODUCERS == 4
DEFAULT_PRODUCER_NODES == 4
DEFAULT_UNSTARTED_NODES == 0
DEFAULT_RETRY == 5
DEFAULT_WAIT == 1
MAX_PRODUCERS == 26

None == "None"
OtherPort == 8888       \* a port other than the default one
NoPort == 0            \* the command line carries no --http-server-address

Addresses == {"127.0.0.1", "localhost", "10.0.0.7"}
Ports == {DEFAULT_PORT, OtherPort}
Files == {DEFAULT_FILE, PROGRAM}
Flags == {"True", "False"}

\* Python truth value of a flag
Truthy(v) == v = "True"

VARIABLES
    pc,          \* position of the thread of control
    err,         \* the exception that ended the run, or None
    given,       \* the settings as resolved by helper.override (inputs)
    address, port, file, start, kill, remote,   \* fields of Service
    procs,       \* process table: pids of live launcher-service processes
    signals,     \* pid -> number of SIGTERMs sent to it
    spid,        \* the list connect() got from get_service_pid()
    queries,     \* number of get_service_pid() calls made
    spawned,     \* pids created by subprocess.Popen in start_service()
    attached,    \* pid connect_to_local_service() attached to, 0 if none
    warnings,    \* warnings printed through print.yellow
    cgiven,      \* the cluster settings as resolved by helper.override (inputs)
    cfg,         \* cluster_id, total_nodes, total_producers, ... of Cluster
    nodes,       \* Cluster.nodes
    producers,   \* Cluster.producers, as the set of <<name, node_id>> pairs
    step,        \* number of bootstrap steps that returned
    call,        \* arguments of the rpc() call in progress
    retry,       \* the local variable retry of loud_rpc / quiet_rpc
    ix,          \* the Interaction of the call in progress
    outstanding, \* HTTP requests sent and not yet answered
    log,         \* attempts and sleeps of the call in progress, in order
    out,         \* what the call in progress has printed
    ret,         \* what the last finished call returned
    used,        \* retries consumed by each finished bootstrap step
    sentSteps,   \* endpoints a request has been sent to
    okSteps,     \* endpoints whose call returned a successful response
    calls,       \* number of calls the caller made outside bootstrap()
    discovered,  \* what get_service_pid() returned to connect(), line 172
    current,     \* what connect_to_local_service() read with ps
    requery,     \* what get_service_pid() returned to start_service()
    inspected,   \* number of get_service_port() calls made
    wire         \* the request handed to requests.post by the last attempt

svars == <<address, port, file, start, kill, remote>>
evars == <<procs, signals, spid, queries, spawned, attached>>
cvars == <<cfg, nodes, producers>>
rvars == <<step, call, retry, ix, outstanding, log, out, ret, used,
           sentSteps, okSteps, calls, wire>>
gvars == <<discovered, current, requery, inspected>>
vars == <<pc, err, given, cgiven, gvars, svars, evars, warnings, cvars, rvars>>

Pids == 1 .. (MaxProcs + 1)

\* helper.pgrep(PROGRAM): the live pids in ascending order
RECURSIVE Ascending(_)
Ascending(S) ==
    IF S = {} THEN <<>>
    ELSE LET m == CHOOSE x \in S : \A y \in S : x <= y
         IN  <<m>> \o Ascending(S \ {m})

pgrep == Ascending(procs)

Range(s) == {s[i] : i \in 1 .. Len(s)}

\* a pid the process table has not used yet
FreshPid == MaxProcs + 1

\* mutant: only the numeric address counts as local
IsLoopback_NumericOnly(a) == a = "127.0.0.1"

\* Service.__init__, lines 128-133: "127.0.0.1" and "localhost" are local
IsLoopback(a) == a \in {"127.0.0.1", "localhost"}

NoTid == 0              \* helper.extract() found no transaction_id: None
NoResponse == [ok |-> FALSE, tid |-> NoTid, seq |-> 0]
NoCall == [endpoint |-> None, retry |-> 0, wait |-> 0, quiet |-> FALSE,
           bootstrap |-> FALSE]
NoUrl == [host |-> None, port |-> 0, endpoint |-> None]
NoData == [endpoint |-> None]
NoIx == [url |-> NoUrl, data |-> NoData, response |-> NoResponse,
         transaction_id |-> NoTid]
NoRequest == [url |-> NoUrl, data |-> NoData]
NoCurrent == [port |-> NoPort, file |-> None]
NoRet == [response |-> NoResponse, transaction_id |-> NoTid]

ServiceInputs(AddrSet, PortSet, FileSet, StartSet, KillSet) ==
    [address : AddrSet, port : PortSet, file : FileSet, start : StartSet,
     kill : KillSet]

ClusterInputs(IdSet, NodeSet, ProducerSet, ProducerNodeSet, UnstartedSet, BootSet) ==
    [cluster_id : IdSet, total_nodes : NodeSet, total_producers : ProducerSet,
     producer_nodes : ProducerNodeSet, unstarted_nodes : UnstartedSet,
     dont_bootstrap : BootSet]

DefaultService ==
    ServiceInputs({DEFAULT_ADDRESS}, {DEFAULT_PORT}, {DEFAULT_FILE},
                  {DEFAULT_START}, {DEFAULT_KILL})

DefaultCluster ==
    ClusterInputs({DEFAULT_CLUSTER_ID}, {DEFAULT_TOTAL_NODES},
                  {DEFAULT_TOTAL_PRODUCERS}, {DEFAULT_PRODUCER_NODES},
                  {DEFAULT_UNSTARTED_NODES}, {FALSE})

\* the state when Service.__init__ has resolved its settings (line 126) and
\* the caller's Cluster settings are fixed
InitWith(ServiceSet, ProcCounts, ClusterSet) ==
    /\ pc = "Service.__init__"
    /\ err = None
    /\ given \in ServiceSet
    /\ address = given.address
    /\ port = given.port
    /\ file = given.file
    /\ start = given.start
    /\ kill = given.kill
    /\ remote = FALSE
    /\ \E n \in ProcCounts : procs = 1 .. n
    /\ signals = [p \in Pids |-> 0]
    /\ spid = <<>>
    /\ queries = 0
    /\ spawned = {}
    /\ attached = 0
    /\ warnings = {}
    /\ cgiven \in ClusterSet
    /\ cfg = [cluster_id |-> cgiven.cluster_id,
              total_nodes |-> cgiven.total_nodes,
              total_producers |-> cgiven.total_producers,
              producer_nodes |-> cgiven.producer_nodes,
              unstarted_nodes |-> cgiven.unstarted_nodes]
    /\ nodes = <<>>
    /\ producers = {}
    /\ step = 0
    /\ call = NoCall
    /\ retry = 0
    /\ ix = NoIx
    /\ outstanding = 0
    /\ log = <<>>
    /\ out = {}
    /\ ret = NoRet
    /\ used = <<>>
    /\ sentSteps = {}
    /\ okSteps = {}
    /\ calls = 0
    /\ discovered = <<>>
    /\ current = NoCurrent
    /\ requery = <<>>
    /\ inspected = 0
    /\ wire = NoRequest

\* ------------------------------------------------------------ environment
\* a launcher-service process exits (on its own, or after a SIGTERM)
ProcExit ==
    /\ pc \in {"connect", "kill", "decide", "verify"}
    /\ \E p \in procs : procs' = procs \ {p}
    /\ UNCHANGED <<pc, err, given, cgiven, gvars, svars, signals, spid, queries,
                   spawned, attached, warnings, cvars, rvars>>

\* ---------------------------------------------------------------- Service
\* Service.__init__, lines 128-133, then connect() unless dont_connect
ServiceInit ==
    /\ pc = "Service.__init__"
    /\ IF IsLoopback(address)
       THEN /\ remote' = FALSE
            /\ UNCHANGED <<file, start, kill>>
       ELSE /\ remote' = TRUE
            /\ file' = None
            /\ start' = None
            /\ kill' = None
    /\ pc' = "connect"
    /\ UNCHANGED <<err, given, cgiven, gvars, address, port, evars, warnings, cvars, rvars>>

\* connect(), lines 165-168: remote service, connect_to_remote_service is a stub
ConnectRemote ==
    /\ pc = "connect"
    /\ remote
    /\ pc' = "connected"
    /\ UNCHANGED <<err, given, cgiven, gvars, svars, evars, warnings, cvars, rvars>>

\* connect(), line 172: spid = self.get_service_pid()
ConnectDiscover ==
    /\ pc = "connect"
    /\ ~remote
    /\ spid' = pgrep
    /\ discovered' = pgrep
    /\ queries' = queries + 1
    /\ pc' = IF Truthy(kill) THEN "kill" ELSE "decide"
    /\ UNCHANGED <<err, given, cgiven, current, requery, inspected, svars, procs, signals,
                   spawned, attached, warnings, cvars, rvars>>

\* mutant: only the first listed pid is signalled
KillSignals_FirstOnly(l) ==
    [p \in Pids |-> IF l # <<>> /\ p = l[1] THEN signals[p] + 1 ELSE signals[p]]

\* kill_service(spid), lines 243-247: one SIGTERM per listed pid
KillSignals(l) ==
    [p \in Pids |-> IF p \in Range(l) THEN signals[p] + 1 ELSE signals[p]]

\* connect(), lines 173-175: kill_service(spid); spid.clear()
ConnectKill ==
    /\ pc = "kill"
    /\ signals' = KillSignals(spid)
    /\ spid' = <<>>
    /\ pc' = "decide"
    /\ UNCHANGED <<err, given, cgiven, gvars, svars, procs, queries, spawned, attached,
                   warnings, cvars, rvars>>

\* mutant: the start flag is ignored
ShouldAttach_IgnoreStart == spid # <<>>

\* connect(), line 176: the attach condition
ShouldAttach == spid # <<>> /\ ~Truthy(start)

\* the warnings connect_to_local_service() prints, lines 227-232
AttachWarnings(current_port, current_file) ==
    (IF port # current_port THEN {"port setting ignored"} ELSE {})
    \cup (IF file # current_file THEN {"file setting ignored"} ELSE {})

\* mutant: the warning is printed but the configured port is kept
AttachedPort_Kept(current_port) == port

\* the settings after connect_to_local_service(), lines 227-232
AttachedPort(current_port) == current_port
AttachedFile(current_file) == current_file

\* mutant: a process without a bind argument is skipped and the configured
\* port is used as it is
ConnectToLocalService_Lenient ==
    /\ pc = "decide"
    /\ ShouldAttach
    /\ inspected' = inspected + 1
    /\ \E current_port \in Ports \cup {NoPort}, current_file \in Files :
         IF current_port = NoPort
         THEN /\ err' = err
              /\ pc' = "connected"
              /\ UNCHANGED <<port, file, attached, warnings, current>>
         ELSE /\ current' = [port |-> current_port, file |-> current_file]
              /\ warnings' = warnings \cup AttachWarnings(current_port, current_file)
              /\ port' = AttachedPort(current_port)
              /\ file' = AttachedFile(current_file)
              /\ attached' = spid[1]
              /\ pc' = "connected"
              /\ err' = err
    /\ UNCHANGED <<given, cgiven, discovered, requery, address, start, kill,
                   remote, procs, signals, spid, queries, spawned, cvars, rvars>>

\* connect_to_local_service(spid[0]), lines 219-234; get_service_port()
\* raises when ps shows no --http-server-address argument, lines 262-268
ConnectToLocalService ==
    /\ pc = "decide"
    /\ ShouldAttach
    /\ inspected' = inspected + 1
    /\ \E current_port \in Ports \cup {NoPort}, current_file \in Files :
         IF current_port = NoPort
         THEN /\ err' = "ConfigExtractionError"
              /\ pc' = "failed"
              /\ UNCHANGED <<port, file, attached, warnings, current>>
         ELSE /\ current' = [port |-> current_port, file |-> current_file]
              /\ warnings' = warnings \cup AttachWarnings(current_port, current_file)
              /\ port' = AttachedPort(current_port)
              /\ file' = AttachedFile(current_file)
              /\ attached' = spid[1]
              /\ pc' = "connected"
              /\ err' = err
    /\ UNCHANGED <<given, cgiven, discovered, requery, address, start, kill,
                   remote, procs, signals, spid, queries, spawned, cvars, rvars>>

\* start_service(), line 239: subprocess.Popen of the configured file
StartSpawn ==
    /\ pc = "decide"
    /\ ~ShouldAttach
    /\ procs' = procs \cup {FreshPid}
    /\ spawned' = spawned \cup {FreshPid}
    /\ pc' = "verify"
    /\ UNCHANGED <<err, given, cgiven, gvars, svars, signals, spid, queries, attached,
                   warnings, cvars, rvars>>

\* mutant: the result of the re-query is not asserted
StartVerifyFails_Never(found) == FALSE

\* start_service(), line 240: assert self.get_service_pid()
StartVerifyFails(found) == found = <<>>

StartVerify ==
    /\ pc = "verify"
    /\ queries' = queries + 1
    /\ requery' = pgrep
    /\ IF StartVerifyFails(pgrep)
       THEN /\ err' = "StartupError"
            /\ pc' = "failed"
       ELSE /\ err' = err
            /\ pc' = "connected"
    /\ UNCHANGED <<given, cgiven, discovered, current, inspected, svars, procs,
                   signals, spid, spawned, attached, warnings, cvars, rvars>>

\* ---------------------------------------------------------------- Cluster
\* mutant: the comparison is reversed
Reconciled_Reversed(c) ==
    IF c.producer_nodes < c.total_producers
    THEN [c EXCEPT !.producer_nodes = c.total_producers]
    ELSE c

\* reconcile_config(), lines 337-343
Reconciled(c) ==
    IF c.producer_nodes > c.total_producers
    THEN [c EXCEPT !.producer_nodes = c.total_producers]
    ELSE c

ReconcileWarnings(c) ==
    IF c.producer_nodes > c.total_producers
    THEN {"producer nodes setting ignored"}
    ELSE {}

\* Cluster.__init__, line 313: self.reconcile_config()
ReconcileConfig ==
    /\ pc = "connected"
    /\ cfg' = Reconciled(cfg)
    /\ warnings' = warnings \cup ReconcileWarnings(cfg)
    /\ pc' = "check_config"
    /\ UNCHANGED <<err, given, cgiven, gvars, svars, evars, nodes, producers, rvars>>

\* mutant: the node-count precondition is not checked
ConfigOk_NoNodeCount(c) ==
    /\ c.cluster_id >= 0
    /\ c.total_producers <= MAX_PRODUCERS

\* check_config(), lines 346-349
ConfigOk(c) ==
    /\ c.cluster_id >= 0
    /\ c.total_nodes >= c.producer_nodes + c.unstarted_nodes
    /\ c.total_producers <= MAX_PRODUCERS

\* mutant: the checks read the configuration as it was supplied
CheckedConfig_Supplied == cgiven

\* what check_config reads: the attributes as reconcile_config, called on
\* line 313 before it, has left them
CheckedConfig == cfg

\* Cluster.__init__, line 316: self.check_config()
CheckConfig ==
    /\ pc = "check_config"
    /\ IF ConfigOk(CheckedConfig)
       THEN /\ pc' = "topology"
            /\ err' = err
       ELSE /\ pc' = "failed"
            /\ err' = "PreconditionFailure"
    /\ UNCHANGED <<given, cgiven, gvars, svars, evars, warnings, cvars, rvars>>

Alphabet == <<"a", "b", "c", "d", "e", "f", "g", "h", "i", "j", "k", "l", "m",
              "n", "o", "p", "q", "r", "s", "t", "u", "v", "w", "x", "y", "z">>

\* line 328: "defproducer" + alphabet[j], j counted from 0
ProducerName(j) == "defproducer" \o Alphabet[j + 1]

\* mutant: the slices ignore the remainder r
SliceOf_NoRemainder(i, q, r) ==
    LET lo == i * q
        hi == (i + 1) * q
    IN  [k \in 1 .. (hi - lo) |-> lo + k - 1]

\* line 327: range(i * q + r if i else 0, (i + 1) * q + r), as a sequence
SliceOf(i, q, r) ==
    LET lo == IF i # 0 THEN i * q + r ELSE 0
        hi == (i + 1) * q + r
    IN  [k \in 1 .. (hi - lo) |-> lo + k - 1]

\* mutant: node 0 does not host "eosio"
NodeProducers_NoEosio(i, q, r) ==
    LET sl == SliceOf(i, q, r)
    IN  [k \in 1 .. Len(sl) |-> ProducerName(sl[k])]

\* lines 326-329: the producer list of node i
NodeProducers(i, q, r) ==
    LET sl == SliceOf(i, q, r)
    IN  (IF i # 0 THEN <<>> ELSE <<"eosio">>)
        \o [k \in 1 .. Len(sl) |-> ProducerName(sl[k])]

\* lines 323-331: self.nodes; hosts says whether the key "producers" is set
BuildNodes(c) ==
    LET q == c.total_producers \div c.producer_nodes
        r == c.total_producers % c.producer_nodes
    IN  [n \in 1 .. c.total_nodes |->
            IF n - 1 < c.producer_nodes
            THEN [node_id |-> n - 1, hosts |-> TRUE,
                  producers |-> NodeProducers(n - 1, q, r)]
            ELSE [node_id |-> n - 1, hosts |-> FALSE, producers |-> <<>>]]

\* line 330: self.producers[name] = i
BuildProducers(c) ==
    LET q == c.total_producers \div c.producer_nodes
        r == c.total_producers % c.producer_nodes
    IN  UNION {{<<ProducerName(SliceOf(i, q, r)[k]), i>> :
                    k \in 1 .. Len(SliceOf(i, q, r))} :
               i \in {m \in 0 .. (c.total_nodes - 1) : m < c.producer_nodes}}

\* Cluster.__init__, lines 318-334; divmod by producer_nodes = 0 raises
BuildTopology ==
    /\ pc = "topology"
    /\ IF cfg.producer_nodes = 0
       THEN /\ err' = "ZeroDivisionError"
            /\ pc' = "failed"
            /\ UNCHANGED <<nodes, producers>>
       ELSE /\ nodes' = BuildNodes(cfg)
            /\ producers' = BuildProducers(cfg)
            /\ err' = err
            /\ pc' = IF cgiven.dont_bootstrap THEN "idle" ELSE "bootstrap"
    /\ UNCHANGED <<given, cgiven, gvars, svars, evars, warnings, cfg, rvars>>

\* -------------------------------------------------------------------- RPC
BootstrapSteps == <<"launch_cluster", "get_cluster_info", "create_bios_accounts">>
Endpoints == Range(BootstrapSteps)
Waits == {DEFAULT_WAIT, 2}

BiosAccounts == <<"eosio.bpay", "eosio.msig", "eosio.names", "eosio.ram",
                  "eosio.ramfee", "eosio.rex", "eosio.saving", "eosio.stake",
                  "eosio.token", "eosio.upay">>

\* the keyword arguments of launch_cluster / get_cluster_info /
\* create_bios_accounts, lines 394-418
Payload(e) ==
    CASE e = "launch_cluster" ->
            [endpoint |-> e, cluster_id |-> cfg.cluster_id,
             node_count |-> cfg.total_nodes, shape |-> DEFAULT_TOPOLOGY,
             nodes |-> nodes]
      [] e = "get_cluster_info" ->
            [endpoint |-> e, cluster_id |-> cfg.cluster_id]
      [] e = "create_bios_accounts" ->
            [endpoint |-> e, cluster_id |-> cfg.cluster_id, creator |-> "eosio",
             accounts |-> BiosAccounts]

\* Interaction.get_url, lines 511-513: "http://{}:{}/v1/launcher/{}"
GetUrl(e, a, p) == [host |-> a, port |-> p, endpoint |-> e]

\* helper.extract(response, key="transaction_id", fallback=None), line 507
Extract(resp) == resp.tid

\* json.dumps(data), line 500: the payload serialised once, as a snapshot
JsonDumps(d) == [json |-> d]

\* Request.post(), lines 492-493: what is handed to requests.post
Posted(i) == [url |-> i.url, data |-> i.data]

\* mutant: a transaction id of an earlier attempt survives a response without one
Attempted_StaleTid(i, resp) ==
    [i EXCEPT !.response = resp,
              !.transaction_id = IF Extract(resp) = NoTid THEN i.transaction_id
                                 ELSE Extract(resp)]

\* Interaction.attempt(), lines 505-508: response and transaction id replaced
Attempted(i, resp) ==
    [i EXCEPT !.response = resp, !.transaction_id = Extract(resp)]

Attempt(b) == [kind |-> "attempt", ok |-> b, d |-> 0]
Sleep(w) == [kind |-> "sleep", ok |-> FALSE, d |-> w]
IsAttempt(x) == x.kind = "attempt"
IsFailure(x) == x.kind = "attempt" /\ ~x.ok
IsSleep(x) == x.kind = "sleep"
Attempts(l) == Len(SelectSeq(l, IsAttempt))
Failures(l) == Len(SelectSeq(l, IsFailure))
Sleeps(l) == Len(SelectSeq(l, IsSleep))

\* rpc() with its defaults, line 426, entering loud_rpc / quiet_rpc up to the
\* first requests.post of Interaction.__init__, lines 436, 452, 499-506
BeginCall(e, r, w, q, boot) ==
    /\ call' = [endpoint |-> e, retry |-> r, wait |-> w, quiet |-> q,
                bootstrap |-> boot]
    /\ retry' = r
    /\ ix' = [url |-> GetUrl(e, address, port), data |-> JsonDumps(Payload(e)),
              response |-> NoResponse, transaction_id |-> NoTid]
    /\ wire' = Posted(ix')
    /\ outstanding' = outstanding + 1
    /\ sentSteps' = sentSteps \cup {e}
    /\ log' = <<>>
    /\ out' = IF q THEN {} ELSE {"header"}
    /\ ret' = NoRet
    /\ pc' = "posting"

RECURSIVE Sum(_)
Sum(l) == IF l = <<>> THEN 0 ELSE l[1] + Sum(Tail(l))

\* mutant: one budget shared by the whole bootstrap
StepBudget_Shared == DEFAULT_RETRY - Sum(used)

\* the budget a bootstrap step starts with: rpc()'s default, line 426
StepBudget == DEFAULT_RETRY

\* bootstrap(), lines 374-381: the next step, with rpc()'s default arguments
BootstrapStep ==
    /\ pc = "bootstrap"
    /\ BeginCall(BootstrapSteps[step + 1], StepBudget, DEFAULT_WAIT, FALSE, TRUE)
    /\ UNCHANGED <<err, given, cgiven, gvars, svars, evars, warnings, cvars, step,
                   used, okSteps, calls>>

\* the caller invokes launch_cluster / get_cluster_info / create_bios_accounts
\* itself, passing retry, wait and quiet through **kwargs
UserCall ==
    /\ pc = "idle"
    /\ calls < MaxCalls
    /\ calls' = calls + 1
    /\ \E e \in Endpoints, r \in 0 .. MaxRetry, w \in Waits, q \in BOOLEAN :
         BeginCall(e, r, w, q, FALSE)
    /\ UNCHANGED <<err, given, cgiven, gvars, svars, evars, warnings, cvars, step,
                   used, okSteps>>

\* Interaction.attempt(), lines 505-508: requests.post returns; in the retry
\* loop the statement retry -= 1 follows, line 443 / 458
Respond(ok) ==
    /\ pc = "posting"
    /\ \E hasTid \in BOOLEAN :
         LET n == Attempts(log) + 1
             resp == [ok |-> ok, tid |-> IF hasTid THEN n ELSE NoTid, seq |-> n]
         IN  /\ ix' = Attempted(ix, resp)
             /\ retry' = IF n > 1 THEN retry - 1 ELSE retry
             /\ out' = IF n = 1 /\ ~call.quiet THEN out \cup {"request"} ELSE out
    /\ log' = Append(log, Attempt(ok))
    /\ outstanding' = outstanding - 1
    /\ pc' = "loop"
    /\ UNCHANGED <<err, given, cgiven, gvars, svars, evars, warnings, cvars, step,
                   call, ret, used, sentSteps, okSteps, calls, wire>>

\* the launcher service answers with a success status
RespondOk == Respond(TRUE)

\* the launcher service answers with a non-success status
RespondFail == Respond(FALSE)

\* mutant: the loop stops one retry early
CanRetry_OffByOne == ~ix.response.ok /\ retry > 1

\* mutant: the loop ignores the response and retries while budget remains
CanRetry_IgnoreOk == retry > 0

\* mutant: the loop goes on once more when the budget is used up
CanRetry_Inclusive == ~ix.response.ok /\ retry >= 0

\* loop condition of loud_rpc / quiet_rpc, lines 438 and 453
CanRetry == ~ix.response.ok /\ retry > 0

\* loop body up to time.sleep(wait), lines 439-441 and 454-456
RetrySleep ==
    /\ pc = "loop"
    /\ CanRetry
    /\ out' = out \cup {"failed response", "Retrying"}
    /\ log' = Append(log, Sleep(call.wait))
    /\ pc' = "slept"
    /\ UNCHANGED <<err, given, cgiven, gvars, svars, evars, warnings, cvars, step,
                   call, retry, ix, outstanding, ret, used, sentSteps, okSteps,
                   calls, wire>>

\* mutant: the retry posts the URL without the body
RetryRequest_NoData == [url |-> ix.url, data |-> NoData]

\* the request a retry posts: self.request, built in __init__, lines 500, 506
RetryRequest == Posted(ix)

\* ix.attempt(), lines 442 and 457: the same request is posted again
RetryAttempt ==
    /\ pc = "slept"
    /\ wire' = RetryRequest
    /\ outstanding' = outstanding + 1
    /\ sentSteps' = sentSteps \cup {call.endpoint}
    /\ pc' = "posting"
    /\ UNCHANGED <<err, given, cgiven, gvars, svars, evars, warnings, cvars, step,
                   call, retry, ix, log, out, ret, used, okSteps, calls>>

\* what loud_rpc prints after the loop, line 444; quiet_rpc prints nothing
ReturnOutput == IF call.quiet THEN out ELSE out \cup {"response"}

\* lines 444-448 and 459-460 with assert ix.response.ok holding
CallSucceed ==
    /\ pc = "loop"
    /\ ~CanRetry
    /\ ix.response.ok
    /\ out' = ReturnOutput
    /\ ret' = [response |-> ix.response, transaction_id |-> ix.transaction_id]
    /\ okSteps' = okSteps \cup {call.endpoint}
    /\ IF call.bootstrap
       THEN /\ step' = step + 1
            /\ used' = Append(used, call.retry - retry)
            /\ pc' = IF step + 1 = Len(BootstrapSteps) THEN "done" ELSE "bootstrap"
       ELSE /\ pc' = "idle"
            /\ UNCHANGED <<step, used>>
    /\ UNCHANGED <<err, given, cgiven, gvars, svars, evars, warnings, cvars, call,
                   retry, ix, outstanding, log, sentSteps, calls, wire>>

\* mutant: the failed assertion is swallowed and bootstrap goes on
CallFail_Swallowed ==
    /\ pc = "loop"
    /\ ~CanRetry
    /\ ~ix.response.ok
    /\ out' = ReturnOutput
    /\ call.bootstrap
    /\ step + 1 < Len(BootstrapSteps)
    /\ step' = step + 1
    /\ pc' = "bootstrap"
    /\ UNCHANGED <<err, given, cgiven, gvars, svars, evars, warnings, cvars, call,
                   retry, ix, outstanding, log, ret, used, sentSteps, okSteps,
                   calls, wire>>

\* lines 445 and 459: assert ix.response.ok fails
CallFail ==
    /\ pc = "loop"
    /\ ~CanRetry
    /\ ~ix.response.ok
    /\ out' = ReturnOutput
    /\ err' = "RpcFailure"
    /\ pc' = "failed"
    /\ UNCHANGED <<given, cgiven, gvars, svars, evars, warnings, cvars, step, call,
                   retry, ix, outstanding, log, ret, used, sentSteps, okSteps,
                   calls, wire>>

\* ------------------------------------------- the two loops as functions
\* loud_rpc and quiet_rpc as functions of the responses R the service gives,
\* R[i] answering the i-th post.  A run is the record of what happened so far;
\* status "pending" means that the next post has no response in R.
Verbosities == 0 .. 3

RunStart == [attempts |-> 1, retry |-> 0, sleeps |-> <<>>, printed |-> <<>>]

\* __init__, lines 139-146: what self.print.response is bound to
PrintResponse(v) ==
    IF v > 2 THEN <<"response in full">>
    ELSE IF v = 2 THEN <<"response with prompt">>
    ELSE IF v = 1 THEN <<"response in short">>
    ELSE <<>>

\* what a run returns or raises once its loop is over
Outcome(R, s, status) ==
    [status |-> status, attempts |-> s.attempts, retry |-> s.retry,
     sleeps |-> s.sleeps, response |-> R[s.attempts],
     transaction_id |-> Extract(R[s.attempts]), printed |-> s.printed]

\* mutant: the quiet loop retries without waiting
QuietBody_NoSleep(s, wait) ==
    [attempts |-> s.attempts + 1, retry |-> s.retry - 1,
     sleeps |-> s.sleeps,
     printed |-> s.printed \o <<"failed response", "Retrying">>]

\* quiet_rpc, lines 454-458: one pass through the loop body
QuietBody(s, wait) ==
    [attempts |-> s.attempts + 1, retry |-> s.retry - 1,
     sleeps |-> Append(s.sleeps, wait),
     printed |-> s.printed \o <<"failed response", "Retrying">>]

\* quiet_rpc, lines 453-460: the loop and what follows it
RECURSIVE QuietLoop(_, _, _)
QuietLoop(R, s, wait) ==
    IF ~R[s.attempts].ok /\ s.retry > 0
    THEN IF s.attempts = Len(R)
         THEN Outcome(R, s, "pending")
         ELSE QuietLoop(R, QuietBody(s, wait), wait)
    ELSE IF R[s.attempts].ok
         THEN Outcome(R, s, "returned")
         ELSE Outcome(R, s, "RpcFailure")

\* quiet_rpc, lines 451-460
QuietRpc(R, r, wait) ==
    QuietLoop(R, [RunStart EXCEPT !.retry = r], wait)

\* loud_rpc, lines 439-443: one pass through the loop body
LoudBody(s, wait) ==
    [attempts |-> s.attempts + 1, retry |-> s.retry - 1,
     sleeps |-> Append(s.sleeps, wait),
     printed |-> s.printed \o <<"failed response", "Retrying">>]

\* loud_rpc, lines 438-448 with validate left at False
RECURSIVE LoudLoop(_, _, _, _)
LoudLoop(R, s, wait, v) ==
    IF ~R[s.attempts].ok /\ s.retry > 0
    THEN IF s.attempts = Len(R)
         THEN Outcome(R, s, "pending")
         ELSE LoudLoop(R, LoudBody(s, wait), wait, v)
    ELSE LET t == [s EXCEPT !.printed = s.printed \o PrintResponse(v)]
         IN  IF R[s.attempts].ok
             THEN Outcome(R, t, "returned")
             ELSE Outcome(R, t, "RpcFailure")

\* loud_rpc, lines 433-448
LoudRpc(R, r, wait, v) ==
    LoudLoop(R, [RunStart EXCEPT !.retry = r,
                                 !.printed = <<"header", "request">>], wait, v)

\* rpc(), lines 426-430: the quiet flag selects the function
Rpc(R, r, wait, quiet, v) ==
    IF quiet THEN QuietRpc(R, r, wait) ELSE LoudRpc(R, r, wait, v)

\* ---------------------------------------------------------- specifications
Lifecycle ==
    \/ ProcExit
    \/ ServiceInit
    \/ ConnectRemote
    \/ ConnectDiscover
    \/ ConnectKill
    \/ ConnectToLocalService
    \/ StartSpawn
    \/ StartVerify
    \/ ReconcileConfig
    \/ CheckConfig
    \/ BuildTopology

Bootstrap ==
    \/ BootstrapStep
    \/ RespondOk
    \/ CallSucceed

Retries ==
    \/ RespondFail
    \/ RetrySleep
    \/ RetryAttempt
    \/ CallFail

Next == Lifecycle \/ Bootstrap \/ UserCall \/ Retries

\* test() against a launcher service that answers every request with success
NextHealthy == Lifecycle \/ Bootstrap

\* the whole program against a launcher service that may fail any request
Init ==
    InitWith(ServiceInputs({DEFAULT_ADDRESS, "10.0.0.7"}, {DEFAULT_PORT},
                           {DEFAULT_FILE}, {DEFAULT_START}, Flags),
             0 .. 1,
             ClusterInputs({DEFAULT_CLUSTER_ID}, {DEFAULT_TOTAL_NODES},
                           {DEFAULT_TOTAL_PRODUCERS}, {0, DEFAULT_PRODUCER_NODES},
                           {DEFAULT_UNSTARTED_NODES, 1}, BOOLEAN))

Spec == Init /\ [][Next]_vars

\* every post returns and the single thread of the program keeps running
SpecLive == Init /\ [][Next]_vars /\ WF_vars(Next)

\* every service setting and up to MaxProcs running launcher services, the
\* default cluster
InitService ==
    InitWith(ServiceInputs(Addresses, Ports, Files, Flags, Flags),
             0 .. MaxProcs, DefaultCluster)

SpecService == InitService /\ [][NextHealthy]_vars

\* the cluster settings drawn from small ranges and the values the
\* specification names (4, 6, 26, 27)
InitCluster ==
    InitWith(ServiceInputs({DEFAULT_ADDRESS, "10.0.0.7"}, {DEFAULT_PORT},
                           {DEFAULT_FILE}, {DEFAULT_START}, Flags),
             {1},
             ClusterInputs({-1, DEFAULT_CLUSTER_ID},
                           (0 .. MaxNodes) \cup {DEFAULT_TOTAL_NODES},
                           (0 .. MaxCount) \cup {DEFAULT_TOTAL_PRODUCERS,
                                                 MAX_PRODUCERS, MAX_PRODUCERS + 1},
                           (0 .. MaxCount) \cup {DEFAULT_PRODUCER_NODES, 6},
                           0 .. 2, {FALSE}))

SpecCluster == InitCluster /\ [][NextHealthy]_vars

\* ------------------------------------------------------------- RPC claims
InCall == pc \in {"posting", "loop", "slept"}
Returned == ret # NoRet
AllFailed(l) == \A i \in 1 .. Len(l) : ~(l[i].kind = "attempt" /\ l[i].ok)

\* log is k rounds of <failed attempt, sleep of the configured wait> followed
\* by one successful attempt
FailThenOk(l, k, w) ==
    /\ Len(l) = 2 * k + 1
    /\ \A i \in 1 .. k : l[2 * i - 1] = Attempt(FALSE) /\ l[2 * i] = Sleep(w)
    /\ l[2 * k + 1] = Attempt(TRUE)

\* C1 as stated: a call that ends in RpcFailure has made exactly `retries`
\* attempts.
C1_Original == err = "RpcFailure" => Attempts(log) = call.retry

\* C1 amended: a call (quiet or loud) makes at most retries + 1 attempts; once
\* retries + 1 attempts have failed no further attempt or delay is made and
\* the only continuation is RpcFailure; a call that ends in RpcFailure has
\* made exactly retries + 1 attempts, all failed, with retries delays, and
\* has returned nothing to the caller.
C1_BudgetExhausted ==
    /\ (InCall \/ err = "RpcFailure") => Attempts(log) <= call.retry + 1
    /\ (InCall /\ Failures(log) = call.retry + 1) =>
            /\ pc = "loop"
            /\ outstanding = 0
            /\ ENABLED CallFail
            /\ ~ENABLED RetrySleep
            /\ ~ENABLED CallSucceed
    /\ err = "RpcFailure" =>
            /\ Attempts(log) = call.retry + 1
            /\ Failures(log) = call.retry + 1
            /\ Sleeps(log) = call.retry
            /\ ret = NoRet
            /\ outstanding = 0
            /\ pc = "failed"

\* a bootstrap step has failed with the default budget exhausted
C1_Witness ==
    /\ err = "RpcFailure"
    /\ call.retry = DEFAULT_RETRY
    /\ Failures(log) = DEFAULT_RETRY + 1

\* C2: a call whose first k < retries attempts fail and whose next attempt
\* succeeds returns that successful response after exactly k failed attempts
\* and k delays of the configured wait, each delay between a failed attempt
\* and the attempt that follows it.
C2_FailThenSucceed ==
    /\ (pc = "loop" /\ ix.response.ok /\ Failures(log) < call.retry) =>
            /\ ENABLED CallSucceed
            /\ ~ENABLED RetrySleep
            /\ ~ENABLED CallFail
    /\ (Returned /\ Failures(log) < call.retry) =>
            /\ FailThenOk(log, Failures(log), call.wait)
            /\ Sleeps(log) = Failures(log)
            /\ ret.response = ix.response
            /\ ret.response.ok
            /\ ret.response.seq = Failures(log) + 1

\* a bootstrap step returned after DEFAULT_RETRY - 1 failures
C2_Witness ==
    /\ Returned
    /\ call.retry = DEFAULT_RETRY
    /\ Failures(log) = DEFAULT_RETRY - 1
    /\ Sleeps(log) = DEFAULT_RETRY - 1

\* C3: bootstrap sends its requests in the order launch_cluster,
\* get_cluster_info, create_bios_accounts, one at a time: a request of a
\* later step is sent only after every earlier step returned a successful
\* response, and after a step failed no request is outstanding or sent.
C3_StrictlySerial ==
    ~cgiven.dont_bootstrap =>
        /\ outstanding \in {0, 1}
        /\ "get_cluster_info" \in sentSteps => "launch_cluster" \in okSteps
        /\ "create_bios_accounts" \in sentSteps =>
                {"launch_cluster", "get_cluster_info"} \subseteq okSteps
        /\ \A e \in okSteps : e \in sentSteps
        /\ ~(InCall /\ call.endpoint \in okSteps)
        /\ err # None => outstanding = 0 /\ call.endpoint \notin okSteps
        /\ outstanding = 1 => pc = "posting"

\* the third step's request is in flight after both earlier steps needed retries
C3_Witness ==
    /\ ~cgiven.dont_bootstrap
    /\ outstanding = 1
    /\ call.endpoint = "create_bios_accounts"
    /\ Len(used) = 2
    /\ used[1] > 0
    /\ used[2] > 0

\* retries completed so far in the call: every attempt but the first
RetriesDone(l) == IF Attempts(l) = 0 THEN 0 ELSE Attempts(l) - 1

\* C4: every bootstrap step starts with the full default budget of 5 retries
\* and may perform all of them, whatever the earlier steps consumed.
C4_IndependentBudget ==
    /\ (InCall /\ call.bootstrap) =>
            /\ call.retry = 5
            /\ retry = 5 - RetriesDone(log)
            /\ (pc = "loop" /\ ~ix.response.ok /\ Attempts(log) <= 5) =>
                    ENABLED RetrySleep
    /\ \A i \in 1 .. Len(used) : used[i] \in 0 .. 5

\* the third step performs its fifth retry after the first two steps
\* consumed five retries each
C4_Witness ==
    /\ call.bootstrap
    /\ call.endpoint = "create_bios_accounts"
    /\ used = <<5, 5>>
    /\ Attempts(log) = 6
    /\ retry = 0

\* ------------------------------------------------------- lifecycle claims
LocalGiven == given.address \in {"127.0.0.1", "localhost"}
KillGiven == given.kill = "True"
StartGiven == given.start = "True"
NoSignals == \A p \in Pids : signals[p] = 0
PastKill == pc \notin {"Service.__init__", "connect", "kill"}
PastDecide == PastKill /\ pc # "decide"

\* C5: on a loopback address with the kill flag set, connect() sends exactly
\* one termination signal to every discovered process and to no other, then
\* holds an empty discovery list: it attaches to nothing and spawns a new
\* service whatever the start flag; with the kill flag unset no signal is
\* ever sent.
C5_KillThenStart ==
    /\ (LocalGiven /\ KillGiven /\ PastKill) =>
            /\ \A p \in Pids :
                   signals[p] = IF p \in Range(discovered) THEN 1 ELSE 0
            /\ spid = <<>>
            /\ attached = 0
            /\ current = NoCurrent
            /\ err # "ConfigExtractionError"
            /\ pc = "decide" => ENABLED StartSpawn /\ ~ENABLED ConnectToLocalService
            /\ PastDecide => spawned # {}
    /\ (LocalGiven /\ KillGiven /\ ~PastKill) => NoSignals
    /\ ~(LocalGiven /\ KillGiven) => NoSignals

\* two running services were signalled and a new one started, start unset
C5_Witness ==
    /\ LocalGiven /\ KillGiven /\ ~StartGiven
    /\ Len(discovered) = 2
    /\ signals[discovered[1]] = 1 /\ signals[discovered[2]] = 1
    /\ spawned # {}
    /\ pc = "connected"

\* C6: on a loopback address with the kill flag unset, connect() takes the
\* attach path exactly when a process was discovered and the start flag is
\* unset: it then spawns nothing and attaches to the first discovered
\* process (or fails reading that process's port); otherwise it spawns a new
\* service and attaches to none; for zero, one or several discovered
\* processes.
C6_AttachOrStart ==
    (LocalGiven /\ ~KillGiven /\ PastDecide) =>
        IF discovered # <<>> /\ ~StartGiven
        THEN /\ spawned = {}
             /\ queries = 1
             /\ \/ attached = discovered[1] /\ err # "ConfigExtractionError"
                \/ attached = 0 /\ err = "ConfigExtractionError"
        ELSE /\ attached = 0
             /\ current = NoCurrent
             /\ err # "ConfigExtractionError"
             /\ spawned # {}

\* several services run, start and kill unset: attached to the first
C6_Witness ==
    /\ LocalGiven /\ ~KillGiven /\ ~StartGiven
    /\ Len(discovered) = 2
    /\ attached = discovered[1]
    /\ spawned = {}
    /\ pc = "connected"

\* C7: after a successful attach the configured port and file are the values
\* read from the process, a warning was printed for exactly the settings
\* whose configured value differed, and every RPC URL carries the read port.
C7_AttachOverwrites ==
    attached # 0 =>
        /\ current.port \in Ports
        /\ port = current.port
        /\ file = current.file
        /\ "port setting ignored" \in warnings <=> given.port # current.port
        /\ "file setting ignored" \in warnings <=> given.file # current.file
        /\ ix.url # NoUrl => ix.url.port = current.port

\* attached to a process on another port with the configured file, and a
\* request was built
C7_Witness ==
    /\ attached # 0
    /\ given.port # current.port
    /\ given.file = current.file
    /\ ix.url # NoUrl
    /\ ix.url.port = current.port
    /\ warnings = {"port setting ignored"}

\* C8: once start_service() has spawned a process and re-queried, it has
\* failed with StartupError exactly when the re-query found nothing; after
\* StartupError the run is over: no Cluster was built and no request sent.
C8_StartupVerified ==
    /\ (spawned # {} /\ pc # "verify") =>
            /\ queries = 2
            /\ err = "StartupError" <=> requery = <<>>
    /\ (spawned = {} \/ pc = "verify") => err # "StartupError" /\ requery = <<>>
    /\ err = "StartupError" =>
            /\ pc = "failed"
            /\ cfg = [f \in DOMAIN cfg |-> cgiven[f]]
            /\ nodes = <<>>
            /\ producers = {}
            /\ sentSteps = {}
            /\ outstanding = 0
            /\ ix = NoIx
            /\ ~ENABLED Next

\* the killed services and the spawned one were all gone at the re-query
C8_Witness ==
    /\ err = "StartupError"
    /\ KillGiven
    /\ discovered # <<>>
    /\ spawned # {}

\* C9: remote holds exactly for an address other than "127.0.0.1" and
\* "localhost"; a remote service has its file, start and kill settings
\* cleared, and connect() then queries no process, signals none, spawns none
\* and attaches to none.
C9_RemoteSkipsLifecycle ==
    pc # "Service.__init__" =>
        /\ remote <=> given.address \notin {"127.0.0.1", "localhost"}
        /\ remote =>
              /\ file = None /\ start = None /\ kill = None
              /\ ~Truthy(start) /\ ~Truthy(kill)
              /\ queries = 0
              /\ discovered = <<>>
              /\ NoSignals
              /\ spawned = {}
              /\ attached = 0

\* a remote address given with start and kill set while services run locally
C9_Witness ==
    /\ remote
    /\ StartGiven /\ KillGiven
    /\ procs # {}
    /\ pc = "done"

\* --------------------------------------------------------- cluster claims
ReconcileDone ==
    /\ pc \notin {"Service.__init__", "connect", "kill", "decide", "verify",
                  "connected"}
    /\ err \notin {"StartupError", "ConfigExtractionError"}

\* C10: after reconciliation producer_nodes never exceeds total_producers: a
\* supplied producer_nodes above total_producers becomes total_producers with
\* a warning and without an error, otherwise producer_nodes is unchanged and
\* no warning is printed; no other setting changes.
C10_Reconciliation ==
    ReconcileDone =>
        /\ cfg.producer_nodes <= cfg.total_producers
        /\ IF cgiven.producer_nodes > cgiven.total_producers
           THEN /\ cfg.producer_nodes = cgiven.total_producers
                /\ "producer nodes setting ignored" \in warnings
           ELSE /\ cfg.producer_nodes = cgiven.producer_nodes
                /\ "producer nodes setting ignored" \notin warnings
        /\ cfg.cluster_id = cgiven.cluster_id
        /\ cfg.total_nodes = cgiven.total_nodes
        /\ cfg.total_producers = cgiven.total_producers
        /\ cfg.unstarted_nodes = cgiven.unstarted_nodes
        /\ pc = "check_config" => err = None

\* producer_nodes = 6 with total_producers = 4 was clamped to 4
C10_Witness ==
    /\ cgiven.producer_nodes = 6
    /\ cgiven.total_producers = 4
    /\ cfg.producer_nodes = 4
    /\ "producer nodes setting ignored" \in warnings
    /\ pc = "check_config"
    /\ err = None

-----------------------------------------------------------------------------
\* a rejected construction: nothing was built and nothing was sent
NothingBuiltOrSent ==
    /\ nodes = <<>>
    /\ producers = {}
    /\ sentSteps = {}
    /\ okSteps = {}
    /\ outstanding = 0
    /\ ix = NoIx
    /\ wire = NoRequest
    /\ log = <<>>

\* the producer_nodes the node-count check sees: the supplied value, clamped
ClampedProducerNodes ==
    IF cgiven.producer_nodes > cgiven.total_producers
    THEN cgiven.total_producers
    ELSE cgiven.producer_nodes

\* C11 as written, with the sum taken over the supplied producer_nodes: a
\* configuration with a negative cluster_id, more than 26 producers, or
\* total_nodes < producer_nodes + unstarted_nodes ends Cluster construction
\* with a precondition failure before anything is built or sent.
C11_Original ==
    (/\ ReconcileDone
     /\ pc # "check_config"
     /\ \/ cgiven.cluster_id < 0
        \/ cgiven.total_producers > 26
        \/ cgiven.total_nodes < cgiven.producer_nodes + cgiven.unstarted_nodes)
    => (err = "PreconditionFailure" /\ pc = "failed" /\ NothingBuiltOrSent)

\* C11: a configuration with a negative cluster_id, more than 26 producers,
\* or total_nodes below the clamped producer_nodes plus unstarted_nodes ends
\* Cluster construction with a precondition failure: no topology is built, no
\* request is ever sent, and nothing runs afterwards.
C11_PreconditionFailure ==
    (/\ ReconcileDone
     /\ pc # "check_config"
     /\ \/ cgiven.cluster_id < 0
        \/ cgiven.total_producers > 26
        \/ cgiven.total_nodes < ClampedProducerNodes + cgiven.unstarted_nodes)
    => /\ err = "PreconditionFailure"
       /\ pc = "failed"
       /\ NothingBuiltOrSent
       /\ ~ENABLED Next

\* total_nodes = 3, producer_nodes = 2, unstarted_nodes = 2 was rejected
C11_Witness ==
    /\ cgiven.cluster_id = 0
    /\ cgiven.total_nodes = 3
    /\ cgiven.producer_nodes = 2
    /\ cgiven.unstarted_nodes = 2
    /\ cgiven.total_producers = 4
    /\ err = "PreconditionFailure"
    /\ pc = "failed"

-----------------------------------------------------------------------------
\* Cluster.__init__ has left the topology step, with or without an error
ConstructionEnded ==
    /\ ReconcileDone
    /\ pc \notin {"check_config", "topology"}

\* non-negative counts that pass the three checks of check_config
ValidConfig ==
    /\ cgiven.cluster_id >= 0
    /\ cgiven.total_nodes >= 0
    /\ cgiven.total_producers >= 0
    /\ cgiven.producer_nodes >= 0
    /\ cgiven.unstarted_nodes >= 0
    /\ cgiven.total_producers <= 26
    /\ cgiven.total_nodes >= ClampedProducerNodes + cgiven.unstarted_nodes

\* the generated identities hosted by node n (1-based index into nodes)
Generated(n) ==
    {nodes[n].producers[k] : k \in 1 .. Len(nodes[n].producers)} \ {"eosio"}

AllGenerated == UNION {Generated(n) : n \in 1 .. Len(nodes)}

\* the identities and the producer map agree, one node per identity
ExactlyOnce ==
    /\ Cardinality(AllGenerated) = cgiven.total_producers
    /\ \A n \in 1 .. Len(nodes) :
          Cardinality(Generated(n)) =
              Len(nodes[n].producers) - (IF n = 1 THEN 1 ELSE 0)
    /\ \A x \in AllGenerated :
          /\ Cardinality({n \in 1 .. Len(nodes) : x \in Generated(n)}) = 1
          /\ \A n \in 1 .. Len(nodes) :
                x \in Generated(n) => <<x, nodes[n].node_id>> \in producers
          /\ Cardinality({p \in producers : p[1] = x}) = 1
    /\ \A p \in producers : p[1] \in AllGenerated
    /\ Cardinality(producers) = cgiven.total_producers
    /\ \A n \in 1 .. Len(nodes) :
          \A k \in 1 .. Len(nodes[n].producers) :
              nodes[n].producers[k] = "eosio" => (n = 1 /\ k = 1)
    /\ \A p \in producers : p[1] # "eosio"

\* C12: for every valid configuration, total_producers = 0 and
\* producer_nodes = 0 included, construction builds a topology whose
\* generated identities are exactly total_producers distinct names, each on
\* exactly one node and recorded in the producer map under that node's id,
\* with "eosio" only on node 0 and not in the map.
C12_ExactlyOnce ==
    (ValidConfig /\ ConstructionEnded) => (err # "ZeroDivisionError" /\ ExactlyOnce)

-----------------------------------------------------------------------------
\* the topology was built: construction went past the topology step unharmed
TopologyBuilt == ConstructionEnded /\ err = None

\* the producer identities the map sends to node id i
MappedTo(i) == {p \in producers : p[2] = i}

-----------------------------------------------------------------------------
\* the names "defproducer" + letter for the letter indices lo .. hi - 1
NamesFrom(lo, hi) ==
    [k \in 1 .. (hi - lo) |-> "defproducer" \o Alphabet[lo + k]]

\* C14: with 1 <= producer_nodes <= total_producers <= 26 in an accepted
\* configuration, the node list has exactly total_nodes descriptors whose
\* node_id is their index; node 0 hosts "eosio" followed by the identities
\* [0, q + r), node i with 0 < i < producer_nodes hosts [i*q + r, (i+1)*q + r),
\* and nodes from producer_nodes on carry no producer list.  With 4 nodes,
\* 4 producers and 4 producer nodes node 0 hosts eosio and defproducera and
\* nodes 1..3 host defproducerb, defproducerc, defproducerd.
C14_Slices ==
    (/\ ConstructionEnded
     /\ ValidConfig
     /\ 1 <= cgiven.producer_nodes
     /\ cgiven.producer_nodes <= cgiven.total_producers
     /\ cgiven.total_producers <= 26)
    => LET pn == cgiven.producer_nodes
           q  == cgiven.total_producers \div pn
           r  == cgiven.total_producers % pn
       IN  /\ err = None
           /\ Len(nodes) = cgiven.total_nodes
           /\ \A n \in 1 .. Len(nodes) :
                 LET i == n - 1
                 IN  /\ nodes[n].node_id = i
                     /\ nodes[n].hosts = (i < pn)
                     /\ i = 0 =>
                           nodes[n].producers = <<"eosio">> \o NamesFrom(0, q + r)
                     /\ (0 < i /\ i < pn) =>
                           nodes[n].producers = NamesFrom(i * q + r, (i + 1) * q + r)
                     /\ i >= pn => nodes[n].producers = <<>>
           /\ (cgiven.total_nodes = 4 /\ cgiven.total_producers = 4 /\ pn = 4) =>
                 nodes = << [node_id |-> 0, hosts |-> TRUE,
                             producers |-> <<"eosio", "defproducera">>],
                            [node_id |-> 1, hosts |-> TRUE,
                             producers |-> <<"defproducerb">>],
                            [node_id |-> 2, hosts |-> TRUE,
                             producers |-> <<"defproducerc">>],
                            [node_id |-> 3, hosts |-> TRUE,
                             producers |-> <<"defproducerd">>] >>

\* the 4 / 4 / 4 example was built
C14_Witness ==
    /\ TopologyBuilt
    /\ cgiven.total_nodes = 4
    /\ cgiven.total_producers = 4
    /\ cgiven.producer_nodes = 4
    /\ Len(nodes) = 4
    /\ nodes[1].producers = <<"eosio", "defproducera">>

-----------------------------------------------------------------------------
\* the responses the current call has received, in order; the transaction ids
\* of superseded responses are not kept
Responses ==
    [i \in 1 .. Attempts(log) |->
        IF i = Attempts(log) THEN ix.response
        ELSE [ok |-> SelectSeq(log, IsAttempt)[i].ok, tid |-> NoTid, seq |-> i]]

\* the waits of the current call, in order
Naps == [i \in 1 .. Sleeps(log) |-> SelectSeq(log, IsSleep)[i].d]

\* a run without what it printed
Control(x) == [x EXCEPT !.printed = <<>>]

\* the current call has its latest response and is not waiting for another
Answered == Attempts(log) >= 1 /\ pc \notin {"posting", "slept"}

\* C15: on the responses a call has received, loud_rpc at every verbosity and
\* quiet_rpc make the same attempts, the same waits and reach the same
\* outcome with the same response and transaction id, differing only in what
\* they print; and the call itself went the way of the function its quiet
\* flag selects.
C15_QuietLoudAgree ==
    Answered =>
        LET R == Responses
            q == QuietRpc(R, call.retry, call.wait)
            mine == Rpc(R, call.retry, call.wait, call.quiet, 1)
        IN  /\ \A v \in Verbosities :
                  Control(LoudRpc(R, call.retry, call.wait, v)) = Control(q)
            /\ mine.attempts = Attempts(log)
            /\ mine.sleeps = Naps
            /\ mine.retry = retry
            /\ mine.response = ix.response
            /\ mine.transaction_id = ix.transaction_id
            /\ (mine.status = "pending") <=> (pc = "loop" /\ CanRetry)
            /\ (mine.status = "returned" /\ pc # "loop") =>
                  (err = None /\ ret.response = mine.response
                              /\ ret.transaction_id = mine.transaction_id)
            /\ (mine.status = "RpcFailure" /\ pc # "loop") => err = "RpcFailure"
            /\ (pc # "loop" /\ err = "RpcFailure") => mine.status = "RpcFailure"
            /\ (pc # "loop" /\ err = None) => mine.status = "returned"

\* a quiet call that failed once, waited and then succeeded
C15_Witness ==
    /\ call.quiet
    /\ ~call.bootstrap
    /\ Returned
    /\ Attempts(log) = 2
    /\ Sleeps(log) = 1
    /\ QuietRpc(Responses, call.retry, call.wait).status = "returned"
    /\ LoudRpc(Responses, call.retry, call.wait, 3).printed # <<>>

-----------------------------------------------------------------------------
\* the selected process was inspected and showed no bind argument
NoBindArgument == inspected >= 1 /\ current = NoCurrent

\* C16: when the process selected for attachment shows no bind argument, the
\* attach fails at once with ConfigExtractionError: the process was inspected
\* once, no service is started as a fallback, the configured port and file
\* are unchanged, no request is sent and nothing runs afterwards.
C16_ExtractionFails ==
    /\ inspected <= 1
    /\ (err = "ConfigExtractionError") <=> NoBindArgument
    /\ NoBindArgument =>
          /\ err = "ConfigExtractionError"
          /\ pc = "failed"
          /\ inspected = 1
          /\ queries = 1
          /\ spawned = {}
          /\ attached = 0
          /\ port = given.port
          /\ file = given.file
          /\ warnings = {}
          /\ NothingBuiltOrSent
          /\ ~ENABLED Next

\* a local run found a process whose command line has no bind argument
C16_Witness ==
    /\ err = "ConfigExtractionError"
    /\ pc = "failed"
    /\ LocalGiven
    /\ spid # <<>>
    /\ inspected = 1
    /\ port = given.port

-----------------------------------------------------------------------------
\* C17: a quiet call prints nothing while it runs and nothing when it ends:
\* no failed-response line, no "Retrying" line, no request and no response
\* summary.
C17_QuietPrintsNothing ==
    (call.quiet /\ call.endpoint # None) => out = {}

-----------------------------------------------------------------------------
\* a step inside one call: from its first post to the end of its loop
WithinCall == InCall /\ pc' \in {"posting", "loop", "slept"}

\* C18: every attempt of a call posts the same request: the URL and the
\* serialised payload are those fixed when the Interaction was created, and
\* a retry changes nothing but the latest response with its transaction id,
\* the remaining budget and the records of what was sent and printed.
C18_SameRequest ==
    [][WithinCall =>
          /\ wire' = wire
          /\ wire.url = [host |-> address, port |-> port,
                         endpoint |-> call.endpoint]
          /\ wire.data = [json |-> Payload(call.endpoint)]
          /\ ix'.url = wire.url
          /\ ix'.data = wire.data
          /\ UNCHANGED <<call, svars, cvars, step, used, calls, ret, err>>]_vars

\* the second post of a call is on the wire with the request of the first
C18_Witness ==
    /\ pc = "posting"
    /\ Attempts(log) = 1
    /\ Failures(log) = 1
    /\ wire = [url |-> ix.url, data |-> ix.data]
    /\ wire.data # NoData

-----------------------------------------------------------------------------
\* C19: what a call returns is the response of its last attempt together
\* with the transaction id extracted from that same response, or no id when
\* that response carries none (which is not an error); an id of an earlier
\* attempt is never returned, and the same pairing holds of the Interaction
\* after every attempt.
C19_LastAttemptPair ==
    /\ Answered =>
          /\ ix.response.seq = Attempts(log)
          /\ ix.transaction_id =
                (IF ix.response.tid = NoTid THEN NoTid ELSE ix.response.seq)
    /\ (Returned /\ Attempts(log) >= 1) =>
          /\ ret.response = ix.response
          /\ ret.response.ok
          /\ ret.response.seq = Attempts(log)
          /\ ret.transaction_id = ret.response.tid
          /\ ret.transaction_id \in {NoTid, Attempts(log)}
          /\ err = None

\* a call returned after a retry with a response that carries no id
C19_Witness ==
    /\ Returned
    /\ Attempts(log) = 2
    /\ ret.response.seq = 2
    /\ ret.transaction_id = NoTid
    /\ err = None

-----------------------------------------------------------------------------
\* the current call is over: it returned or its assertion failed
CallOver == Attempts(log) >= 1 /\ ~InCall

\* C20: provided every post returns, every call ends, in success or in
\* RpcFailure, after at most retry + 1 attempts and retry waits; with a
\* budget of 0 it makes exactly one attempt and never waits; and it fails
\* only with the budget used up, never while budget remains.
C20_Terminates ==
    /\ [](/\ Attempts(log) <= call.retry + 1
          /\ Sleeps(log) <= call.retry
          /\ retry >= 0
          /\ CallOver =>
                /\ Returned \/ err = "RpcFailure"
                /\ ~(Returned /\ err = "RpcFailure")
                /\ call.retry = 0 => (Attempts(log) = 1 /\ Sleeps(log) = 0)
                /\ err = "RpcFailure" =>
                      /\ retry = 0
                      /\ Attempts(log) = call.retry + 1
                      /\ ~ix.response.ok)
    /\ (InCall ~> CallOver)

\* a call with budget 0 failed after its only attempt, without a wait
C20_Witness ==
    /\ CallOver
    /\ call.retry = 0
    /\ err = "RpcFailure"
    /\ Attempts(log) = 1
    /\ Sleeps(log) = 0

-----------------------------------------------------------------------------
\* the letter indices the assignment step reads for an accepted configuration
LetterIndices ==
    LET pn == ClampedProducerNodes
        q  == cgiven.total_producers \div pn
        r  == cgiven.total_producers % pn
    IN  UNION {(IF i = 0 THEN 0 ELSE i * q + r) .. ((i + 1) * q + r - 1) :
               i \in 0 .. (pn - 1)}

\* C21: every configuration of non-negative counts that passes reconciliation
\* and the three checks, total_producers = 0 and producer_nodes = 0 included,
\* gets its topology: the assignment step raises no error, leaves one
\* descriptor per node, and reads no letter outside the 26 of the alphabet.
C21_AcceptedYieldsTopology ==
    (ValidConfig /\ ConstructionEnded) =>
        /\ err \notin {"ZeroDivisionError", "PreconditionFailure"}
        /\ Len(nodes) = cgiven.total_nodes
        /\ ClampedProducerNodes >= 1 => LetterIndices \subseteq 0 .. 25

-----------------------------------------------------------------------------
\* check_config has run
Checked == ReconcileDone /\ pc # "check_config"

\* C22: the checks run on the reconciled configuration: when check_config is
\* reached producer_nodes is already clamped, and a configuration is accepted
\* if and only if cluster_id >= 0, total_producers <= 26 and total_nodes >=
\* min(producer_nodes, total_producers) + unstarted_nodes; so a supplied
\* producer_nodes + unstarted_nodes above total_nodes is accepted whenever
\* clamping brings the sum down to total_nodes or below.
C22_ChecksAfterClamping ==
    LET least == IF cgiven.producer_nodes <= cgiven.total_producers
                 THEN cgiven.producer_nodes
                 ELSE cgiven.total_producers
        accepted == err # "PreconditionFailure"
    IN  /\ pc = "check_config" => cfg.producer_nodes = least
        /\ Checked =>
              /\ accepted <=>
                    /\ cgiven.cluster_id >= 0
                    /\ cgiven.total_producers <= 26
                    /\ cgiven.total_nodes >= least + cgiven.unstarted_nodes
              /\ (/\ cgiven.cluster_id >= 0
                  /\ cgiven.total_producers <= 26
                  /\ cgiven.producer_nodes + cgiven.unstarted_nodes
                        > cgiven.total_nodes
                  /\ cgiven.total_producers + cgiven.unstarted_nodes
                        <= cgiven.total_nodes) => accepted

\* three producer nodes and one unstarted node were asked of three nodes:
\* with two producers the clamped sum is three and the topology was built
C22_Witness ==
    /\ TopologyBuilt
    /\ cgiven.total_nodes = 3
    /\ cgiven.total_producers = 2
    /\ cgiven.producer_nodes = 3
    /\ cgiven.unstarted_nodes = 1
    /\ cfg.producer_nodes = 2
    /\ Len(nodes) = 3

-----------------------------------------------------------------------------
\* start_service has returned: the re-query was made and its assertion held
StartReturned == spawned # {} /\ pc # "verify" /\ err # "StartupError"

\* C23: whenever start_service returns without StartupError, the process it
\* spawned is among the launcher services the re-query found: neither a
\* service that ran before the spawn nor one that was signalled and has not
\* exited yet can stand in for it.
C23_SpawnedIsVerified ==
    StartReturned => spawned \subseteq Range(requery)
=============================================================================
